---- MODULE Spec2Model ----
(***************************************************************************)
(* Model of the Luemn Note backend: five collections of write-once         *)
(* documents (journal, journalpage, calendarevent, sticker, drawing), the  *)
(* create / list / get handlers of main.py, the pydantic schemas of        *)
(* schemas.py, and the day aggregate get_day.                              *)
(*                                                                         *)
(* Strings are TLA+ strings; Chars gives the characters of the strings     *)
(* that are inspected character by character (dates and month patterns).   *)
(* Python's None for an Optional[str] is the string None; a JSON null in   *)
(* a place that otherwise holds a document is the record null.  A JSON     *)
(* body is a record holding only the fields the client sent.               *)
(***************************************************************************)
EXTENDS Integers, Sequences, FiniteSets, TLC

VARIABLES
    store,      \* collection name -> sequence of stored documents (storage order)
    nextOid,    \* the store's identifier generator
    resp,       \* the response of the last completed request
    created,    \* history: the successful creates, in order (collection, body sent, id returned)
    day         \* the get_day call in flight (DaySpec only)

vars == <<store, nextOid, resp, created, day>>

----------------------------------------------------------------------------
(* Bounds of the model *)

MaxDocs == 2        \* documents inserted in one behaviour of Spec
MaxDayDocs == 2     \* documents inserted in one behaviour of DaySpec

----------------------------------------------------------------------------
(* Values *)

None == "None"
null == [null |-> TRUE]

Truthy(s) == s # None /\ s # ""

D0305 == "2024-03-05"
D0401 == "2024-04-01"
Dates == {D0305, D0401}
JournalIds == {"j1", "j2"}

Chars(s) ==
    CASE s = "" -> <<>>
      [] s = "2024-03-05" -> <<"2","0","2","4","-","0","3","-","0","5">>
      [] s = "2024-04-01" -> <<"2","0","2","4","-","0","4","-","0","1">>
      [] s = "2024-03" -> <<"2","0","2","4","-","0","3">>
      [] s = "2024-04" -> <<"2","0","2","4","-","0","4">>
      [] s = "2024.03" -> <<"2","0","2","4",".","0","3">>
      [] s = "2024-03|04" -> <<"2","0","2","4","-","0","3","|","0","4">>

HexDigits == <<"0","1","2","3","4","5","6","7","8","9","a","b","c","d","e","f">>

\* str(ObjectId): the identifier written in hexadecimal, two digits here
Str(oid) == <<HexDigits[((oid \div 16) % 16) + 1], HexDigits[(oid % 16) + 1]>>

----------------------------------------------------------------------------
(* The pattern language of a "$regex" filter: literal characters, "." for  *)
(* any one character, "|" between alternatives, a leading "^" anchoring    *)
(* its alternative at the start; the pattern is searched for anywhere in   *)
(* the subject.                                                            *)

RECURSIVE SplitBar(_)
SplitBar(p) ==
    IF \A i \in 1..Len(p) : p[i] # "|" THEN <<p>>
    ELSE LET k == CHOOSE i \in 1..Len(p) :
                     p[i] = "|" /\ \A j \in 1..(i - 1) : p[j] # "|"
         IN <<SubSeq(p, 1, k - 1)>> \o SplitBar(SubSeq(p, k + 1, Len(p)))

\* the atoms a match s at offset pos (0-based)
MatchAt(a, s, pos) ==
    /\ pos + Len(a) <= Len(s)
    /\ \A j \in 1..Len(a) : a[j] = "." \/ a[j] = s[pos + j]

AltSearch(alt, s) ==
    IF alt # <<>> /\ alt[1] = "^"
    THEN MatchAt(Tail(alt), s, 0)
    ELSE \E pos \in 0..Len(s) : MatchAt(alt, s, pos)

RegexSearch(pattern, s) ==
    LET alts == SplitBar(pattern)
    IN \E k \in 1..Len(alts) : AltSearch(alts[k], s)

----------------------------------------------------------------------------
(* schemas.py *)

Required == [required |-> TRUE, ranged |-> FALSE]
Default(d) == [required |-> FALSE, ranged |-> FALSE, default |-> d]
DefaultRange(d, lo, hi) ==
    [required |-> FALSE, ranged |-> TRUE, default |-> d, ge |-> lo, le |-> hi]

FontSizeDefault == 16
FontSizeMin == 8
FontSizeMax == 64

Journal ==
    [title |-> Required,
     cover_style |-> Default("pastel-pink"),
     paper_style |-> Default("dotted"),
     owner |-> Default(None)]

JournalPage ==
    [journal_id |-> Required,
     date |-> Required,
     content |-> Default(""),
     font |-> Default("Inter"),
     font_size |-> DefaultRange(FontSizeDefault, FontSizeMin, FontSizeMax),
     color |-> Default("#1f2937"),
     alignment |-> Default("left"),
     background |-> Default(None)]

CalendarEvent ==
    [date |-> Required,
     title |-> Required,
     highlight |-> Default(None),
     emoji |-> Default(None)]

\* the float fields x, y, size hold whole numbers here
Sticker ==
    [date |-> Required,
     category |-> Default("decor"),
     label |-> Required,
     x |-> Default(0),
     y |-> Default(0),
     size |-> Default(1)]

Drawing ==
    [date |-> Required,
     tool |-> Default("pen"),
     color |-> Default("#111827"),
     size |-> Default(2),
     points |-> Default(<<>>)]

\* variant: the range ends taken as exclusive (gt / lt for ge / le)
ValidExclusive(schema, in) ==
    /\ \A f \in DOMAIN schema : schema[f].required => f \in DOMAIN in
    /\ \A f \in DOMAIN schema :
          (schema[f].ranged /\ f \in DOMAIN in)
              => (in[f] > schema[f].ge /\ in[f] < schema[f].le)

\* variant: only the fields that were sent are kept, no default is filled in
ValidatedSupplied(schema, in) ==
    [f \in (DOMAIN schema) \cap (DOMAIN in) |-> in[f]]

\* pydantic validation of a body against a schema: every required field is
\* present, every ranged field that is present lies in its range; the
\* validated record holds every declared field, defaults filled in.
Valid(schema, in) ==
    /\ \A f \in DOMAIN schema : schema[f].required => f \in DOMAIN in
    /\ \A f \in DOMAIN schema :
          (schema[f].ranged /\ f \in DOMAIN in)
              => (in[f] >= schema[f].ge /\ in[f] <= schema[f].le)

Validated(schema, in) ==
    [f \in DOMAIN schema |-> IF f \in DOMAIN in THEN in[f] ELSE schema[f].default]

----------------------------------------------------------------------------
(* The document store adapter (database.py): create_document, get_documents *)

Collections == {"journal", "journalpage", "calendarevent", "sticker", "drawing"}

Put(r, k, v) == [x \in (DOMAIN r) \cup {k} |-> IF x = k THEN v ELSE r[x]]

Take(seq, n) == IF Len(seq) <= n THEN seq ELSE SubSeq(seq, 1, n)

\* a filter is a set of conditions on fields: exact match or regex search
Eq(field, value) == [field |-> field, op |-> "eq", value |-> value]
Regex(field, pattern) == [field |-> field, op |-> "regex", pattern |-> pattern]

Matches(doc, filt) ==
    \A c \in filt :
        IF c.op = "eq" THEN doc[c.field] = c.value
        ELSE RegexSearch(c.pattern, Chars(doc[c.field]))

\* insert the record under a fresh identifier; the identifier comes back as a string
create_document(st, oid, collection_name, data) ==
    [store |-> [st EXCEPT ![collection_name] = Append(@, Put(data, "_id", oid))],
     nextOid |-> oid + 1,
     id |-> Str(oid)]

\* the matching documents in storage order, capped when a limit is given
\* (limit is <<>> for None, <<n>> for n)
get_documents(st, collection_name, filt, limit) ==
    LET Test(doc) == Matches(doc, filt)
        found == SelectSeq(st[collection_name], Test)
    IN IF limit = <<>> THEN found ELSE Take(found, limit[1])

----------------------------------------------------------------------------
(* main.py: the handlers *)

\* it["id"] = str(it.pop("_id"))
Egress(doc) ==
    [f \in ((DOMAIN doc) \ {"_id"}) \cup {"id"} |->
        IF f = "id" THEN Str(doc["_id"]) ELSE doc[f]]

EgressAll(docs) == [i \in 1..Len(docs) |-> Egress(docs[i])]

Ok(op, req, body) == [op |-> op, req |-> req, status |-> 200, body |-> body]
Err(op, req, status) == [op |-> op, req |-> req, status |-> status]
\* an exception of the store adapter, passed on unmodified
Raise(op) == [op |-> op, status |-> 500]
NoResp == [op |-> "none", status |-> 0]

\* variant: the identifier returned is the collection's new size
CreateResultBySize(st, oid, collection_name, record) ==
    LET r == create_document(st, oid, collection_name, record)
    IN [store |-> r.store, nextOid |-> r.nextOid,
        body |-> [id |-> Str(Len(r.store[collection_name]))]]

\* what a create handler does with a validated record
CreateResult(st, oid, collection_name, record) ==
    LET r == create_document(st, oid, collection_name, record)
    IN [store |-> r.store, nextOid |-> r.nextOid, body |-> [id |-> r.id]]

\* POST of body `in` to a create handler: validation, then the insert, which
\* succeeds or raises; `cap` bounds the inserts of one behaviour
Create(op, collection_name, schema, in, cap) ==
    IF ~Valid(schema, in)
    THEN /\ resp = NoResp
         /\ resp' = Err(op, in, 422)
         /\ UNCHANGED <<store, nextOid, created, day>>
    ELSE \/ /\ resp = NoResp
            /\ nextOid < cap
            /\ LET r == CreateResult(store, nextOid, collection_name, Validated(schema, in))
               IN /\ store' = r.store
                  /\ nextOid' = r.nextOid
                  /\ resp' = Ok(op, in, r.body)
                  /\ created' = Append(created,
                         [collection |-> collection_name, input |-> in,
                          id |-> r.body.id])
            /\ UNCHANGED day
         \/ /\ resp = NoResp
            /\ resp' = Raise(op)
            /\ UNCHANGED <<store, nextOid, created, day>>

FontSizes == {FontSizeMin - 1, FontSizeMin, FontSizeMax, FontSizeMax + 1}

JournalInputs ==
    {[title |-> "Diary"], [title |-> "Diary", cover_style |-> "linen"],
     [cover_style |-> "linen"]}
PageInputs ==
    {[journal_id |-> j, date |-> d] : j \in JournalIds, d \in Dates}
    \cup {[journal_id |-> "j1", date |-> D0305, font_size |-> f] : f \in FontSizes}
EventInputs == {[date |-> d, title |-> "Lunch"] : d \in Dates} \cup {[date |-> D0305]}
StickerInputs == {[date |-> d, label |-> "star"] : d \in Dates}
DrawingInputs == {[date |-> d] : d \in Dates}

create_journal(cap) ==
    \E in \in JournalInputs : Create("create_journal", "journal", Journal, in, cap)
create_page(cap) ==
    \E in \in PageInputs : Create("create_page", "journalpage", JournalPage, in, cap)
create_event(cap) ==
    \E in \in EventInputs : Create("create_event", "calendarevent", CalendarEvent, in, cap)
create_sticker(cap) ==
    \E in \in StickerInputs : Create("create_sticker", "sticker", Sticker, in, cap)
create_drawing(cap) ==
    \E in \in DrawingInputs : Create("create_drawing", "drawing", Drawing, in, cap)

LimitDefault == 50
LimitMin == 1
LimitMax == 200

Limits == {<<>>, <<LimitMin - 1>>, <<LimitMin>>, <<LimitMin + 1>>, <<LimitMax>>, <<LimitMax + 1>>}

\* a read handler's outcome when the store call raises or succeeds
Reply(op, req, ok, body) ==
    /\ resp = NoResp
    /\ resp' = IF ok THEN Ok(op, req, body) ELSE Raise(op)
    /\ UNCHANGED <<store, nextOid, created, day>>

\* variant: the limit is not passed on
ListJournalsUncapped(st, limit) == EgressAll(get_documents(st, "journal", {}, <<>>))

ListJournals(st, limit) == EgressAll(get_documents(st, "journal", {}, <<limit>>))

list_journals ==
    \E lim \in Limits, ok \in BOOLEAN :
        LET limit == IF lim = <<>> THEN LimitDefault ELSE lim[1]
            req == [limit |-> lim]
        IN IF limit < LimitMin \/ limit > LimitMax
           THEN /\ resp = NoResp
                /\ resp' = Err("list_journals", req, 422)
                /\ UNCHANGED <<store, nextOid, created, day>>
           ELSE Reply("list_journals", req, ok, ListJournals(store, limit))

\* variant: the journal_id is left out of the filter
GetPageByDate(st, journal_id, date) ==
    get_documents(st, "journalpage", {Eq("date", date)}, <<1>>)

GetPage(st, journal_id, date) ==
    get_documents(st, "journalpage", {Eq("journal_id", journal_id), Eq("date", date)}, <<1>>)

get_page ==
    \E journal_id \in JournalIds, date \in Dates, ok \in BOOLEAN :
        LET req == [journal_id |-> journal_id, date |-> date]
            docs == GetPage(store, journal_id, date)
        IN IF ok /\ docs = <<>>
           THEN /\ resp = NoResp
                /\ resp' = Err("get_page", req, 404)
                /\ UNCHANGED <<store, nextOid, created, day>>
           ELSE Reply("get_page", req, ok, Egress(docs[1]))

\* variant: month tested before date
DateFilterMonthFirst(date, month) ==
    IF Truthy(month) THEN {Regex("date", <<"^">> \o Chars(month))}
    ELSE IF Truthy(date) THEN {Eq("date", date)}
    ELSE {}

\* the filter of list_events, list_stickers and list_drawings
DateFilter(date, month) ==
    IF Truthy(date) THEN {Eq("date", date)}
    ELSE IF Truthy(month) THEN {Regex("date", <<"^">> \o Chars(month))}
    ELSE {}

ListByDate(st, collection_name, date, month) ==
    EgressAll(get_documents(st, collection_name, DateFilter(date, month), <<>>))

QueryDates == {None, ""} \cup Dates
QueryMonths == {None, "", "2024-03", "2024.03", "2024-03|04"}

List(op, collection_name) ==
    \E date \in QueryDates, month \in QueryMonths, ok \in BOOLEAN :
        Reply(op, [date |-> date, month |-> month], ok,
              ListByDate(store, collection_name, date, month))

list_events == List("list_events", "calendarevent")
list_stickers == List("list_stickers", "sticker")
list_drawings == List("list_drawings", "drawing")

----------------------------------------------------------------------------
(* main.py: get_day, one store read per step *)

Idle == [pc |-> "idle"]

\* resp = {"date": date}
DayBegin(date, journal_id) ==
    [pc |-> "page", date |-> date, journal_id |-> journal_id,
     resp |-> [date |-> date], failed |-> None]

DayReq(d) == [date |-> d.date, journal_id |-> d.journal_id]

\* variant: the journal_id is never put in the page filter
DayPageAnyJournal(st, date, journal_id) ==
    LET page_docs == get_documents(st, "journalpage", {Eq("date", date)}, <<1>>)
    IN IF page_docs # <<>> THEN Egress(page_docs[1]) ELSE null

DayPage(st, date, journal_id) ==
    LET page_docs == get_documents(st, "journalpage",
                        IF Truthy(journal_id)
                        THEN {Eq("journal_id", journal_id), Eq("date", date)}
                        ELSE {Eq("date", date)},
                        <<1>>)
    IN IF page_docs # <<>> THEN Egress(page_docs[1]) ELSE null

\* variant: the date is left out of the filter
DayListAll(st, collection_name, date) ==
    EgressAll(get_documents(st, collection_name, {}, <<>>))

DayList(st, collection_name, date) ==
    EgressAll(get_documents(st, collection_name, {Eq("date", date)}, <<>>))

DayRead(st, d) ==
    CASE d.pc = "page" -> DayPage(st, d.date, d.journal_id)
      [] d.pc = "events" -> DayList(st, "calendarevent", d.date)
      [] d.pc = "stickers" -> DayList(st, "sticker", d.date)
      [] d.pc = "drawings" -> DayList(st, "drawing", d.date)

DayAfter(pc) ==
    CASE pc = "page" -> "events"
      [] pc = "events" -> "stickers"
      [] pc = "stickers" -> "drawings"
      [] pc = "drawings" -> "done"

\* variant: a failed read is caught and its component left empty
DayStepSwallow(d, st, ok) ==
    LET r == Put(d.resp, d.pc,
                 IF ok THEN DayRead(st, d) ELSE IF d.pc = "page" THEN null ELSE <<>>)
        n == [d EXCEPT !.pc = DayAfter(d.pc), !.resp = r,
                       !.failed = IF ok THEN d.failed ELSE d.pc]
    IN IF n.pc = "done" THEN n @@ [ret |-> Ok("get_day", DayReq(d), r)] ELSE n

\* one read of get_day against the store st: it succeeds (ok) and its result
\* goes into resp, or it raises and the call ends in that error; after the
\* last read the handler returns resp
DayStep(d, st, ok) ==
    IF ~ok
    THEN [d EXCEPT !.pc = "error", !.failed = d.pc] @@ [ret |-> Raise("get_day")]
    ELSE LET r == Put(d.resp, d.pc, DayRead(st, d))
             n == [d EXCEPT !.pc = DayAfter(d.pc), !.resp = r]
         IN IF n.pc = "done" THEN n @@ [ret |-> Ok("get_day", DayReq(d), r)] ELSE n

RECURSIVE DayRun(_, _, _)
DayRun(d, st, failAt) ==
    IF d.pc \in {"done", "error"} THEN d
    ELSE DayRun(DayStep(d, st, d.pc # failAt), st, failAt)

DayJournalIds == {None, ""} \cup JournalIds
FailPoints == {None, "page", "events", "stickers", "drawings"}

\* get_day with no other request between its reads
get_day ==
    \E date \in Dates, journal_id \in DayJournalIds, failAt \in FailPoints :
        /\ resp = NoResp
        /\ resp' = DayRun(DayBegin(date, journal_id), store, failAt).ret
        /\ UNCHANGED <<store, nextOid, created, day>>

\* get_day as the requests around it see it: the call starts, ...
day_begin ==
    /\ resp = NoResp
    /\ day.pc = "idle"
    /\ \E date \in Dates, journal_id \in DayJournalIds :
          day' = DayBegin(date, journal_id)
    /\ UNCHANGED <<store, nextOid, resp, created>>

\* ... does its next read, and returns after the last one or on an error
day_read ==
    /\ resp = NoResp
    /\ day.pc \in {"page", "events", "stickers", "drawings"}
    /\ \E ok \in BOOLEAN : day' = DayStep(day, store, ok)
    /\ resp' = IF day'.pc \in {"done", "error"} THEN day'.ret ELSE resp
    /\ UNCHANGED <<store, nextOid, created>>

----------------------------------------------------------------------------
(* Specifications *)

Init ==
    /\ store = [c \in Collections |-> <<>>]
    /\ nextOid = 0
    /\ resp = NoResp
    /\ created = <<>>
    /\ day = Idle

\* the response of the last request leaves the server, and with it the
\* call that produced it
respond ==
    /\ resp # NoResp
    /\ resp' = NoResp
    /\ day' = IF day.pc \in {"done", "error"} THEN Idle ELSE day
    /\ UNCHANGED <<store, nextOid, created>>

\* the requests, each handled in one step
Next ==
    \/ create_journal(MaxDocs)
    \/ create_page(MaxDocs)
    \/ create_event(MaxDocs)
    \/ create_sticker(MaxDocs)
    \/ create_drawing(MaxDocs)
    \/ list_journals
    \/ get_page
    \/ list_events
    \/ list_stickers
    \/ list_drawings
    \/ get_day
    \/ respond

Spec == Init /\ [][Next]_vars

\* one get_day call read by read, with creates arriving between its reads
DayNext ==
    \/ create_journal(MaxDayDocs)
    \/ create_page(MaxDayDocs)
    \/ create_event(MaxDayDocs)
    \/ create_sticker(MaxDayDocs)
    \/ create_drawing(MaxDayDocs)
    \/ day_begin
    \/ day_read
    \/ respond

DaySpec == Init /\ [][DayNext]_vars

----------------------------------------------------------------------------
(* Vocabulary of the properties *)

ListOps == {"list_events", "list_stickers", "list_drawings"}
CreateOps == {"create_journal", "create_page", "create_event", "create_sticker", "create_drawing"}

CollectionOf(op) ==
    CASE op \in {"create_journal", "list_journals"} -> "journal"
      [] op \in {"create_page", "get_page"} -> "journalpage"
      [] op \in {"create_event", "list_events"} -> "calendarevent"
      [] op \in {"create_sticker", "list_stickers"} -> "sticker"
      [] op \in {"create_drawing", "list_drawings"} -> "drawing"

SchemaOf(collection_name) ==
    CASE collection_name = "journal" -> Journal
      [] collection_name = "journalpage" -> JournalPage
      [] collection_name = "calendarevent" -> CalendarEvent
      [] collection_name = "sticker" -> Sticker
      [] collection_name = "drawing" -> Drawing

Answered(ops) == resp.op \in ops /\ resp.status = 200
Supplied(s) == s # None /\ s # ""

\* a stored document as a client is to see it: its fields, and its identifier as a string under id
External(doc) ==
    [f \in ((DOMAIN doc) \ {"_id"}) \cup {"id"} |->
        IF f = "id" THEN Str(doc["_id"]) ELSE doc[f]]

\* body lists exactly the documents of docs satisfying P, in the order of docs
Exactly(body, docs, P(_)) ==
    LET chosen == SelectSeq(docs, P)
    IN /\ Len(body) = Len(chosen)
       /\ \A i \in 1..Len(chosen) : body[i] = External(chosen[i])

HasPrefix(p, s) == Len(p) <= Len(s) /\ \A i \in 1..Len(p) : s[i] = p[i]

----------------------------------------------------------------------------
\* C1: in list_events, list_stickers and list_drawings a non-empty date
\* selects exactly the records of that date whatever month is; with date
\* absent or empty a non-empty month alone selects (by its pattern); with
\* neither, every record of the collection is returned, uncapped.
C1_DateWinsOverMonth ==
    Answered(ListOps) =>
        LET docs == store[CollectionOf(resp.op)]
            date == resp.req.date
            month == resp.req.month
            OnDate(d) == d.date = date
            InMonth(d) == RegexSearch(<<"^">> \o Chars(month), Chars(d.date))
            Every(d) == TRUE
        IN IF Supplied(date) THEN Exactly(resp.body, docs, OnDate)
           ELSE IF Supplied(month) THEN Exactly(resp.body, docs, InMonth)
           ELSE Exactly(resp.body, docs, Every) /\ Len(resp.body) = Len(docs)

\* the spec's example: events of March and April stored, date of April and
\* month of March asked, only the April event returned
C1_Witness ==
    /\ Answered({"list_events"})
    /\ resp.req.date = D0401 /\ resp.req.month = "2024-03"
    /\ Len(store["calendarevent"]) = 2
    /\ store["calendarevent"][1].date = D0305
    /\ store["calendarevent"][2].date = D0401
    /\ Len(resp.body) = 1 /\ resp.body[1].date = D0401

\* C2: a month given without a date selects exactly the records whose date
\* literally starts with the month string, whatever characters it holds.
C2_LiteralPrefix ==
    (Answered(ListOps) /\ ~Supplied(resp.req.date) /\ Supplied(resp.req.month)) =>
        LET StartsWithMonth(d) == HasPrefix(Chars(resp.req.month), Chars(d.date))
        IN Exactly(resp.body, store[CollectionOf(resp.op)], StartsWithMonth)

----------------------------------------------------------------------------
\* C3: get_page answers 404 exactly when no stored page has both the
\* journal_id and the date asked for (the store answering); a success is
\* one stored page with that journal_id and that date, never an empty list
\* or null.
C3_PageFoundOrNotFound ==
    (resp.op = "get_page" /\ resp.status # 500) =>
        LET pages == store["journalpage"]
            hits == {i \in 1..Len(pages) :
                        /\ pages[i].journal_id = resp.req.journal_id
                        /\ pages[i].date = resp.req.date}
        IN /\ resp.status \in {200, 404}
           /\ resp.status = 404 <=> hits = {}
           /\ resp.status = 200 =>
                 /\ resp.body \in {External(pages[i]) : i \in hits}
                 /\ resp.body.journal_id = resp.req.journal_id
                 /\ resp.body.date = resp.req.date

\* not found although a page of that date is stored, under another journal
C3_Witness ==
    /\ resp.op = "get_page" /\ resp.status = 404
    /\ \E i \in 1..Len(store["journalpage"]) :
          /\ store["journalpage"][i].date = resp.req.date
          /\ store["journalpage"][i].journal_id # resp.req.journal_id

----------------------------------------------------------------------------
\* the day aggregate a store state st holds for a date and journal_id
DayPages(st, date, journal_id) ==
    {i \in 1..Len(st["journalpage"]) :
        /\ st["journalpage"][i].date = date
        /\ Supplied(journal_id) => st["journalpage"][i].journal_id = journal_id}

\* C4: get_day, its reads answered and no write between them, returns
\* exactly the keys date, page, events, stickers, drawings: the date asked,
\* all events, stickers and drawings of that date, and as page null when no
\* page matches and otherwise one page of that date (and of that journal_id
\* when a non-empty one is given); a missing page is never an error.
C4_DayShape ==
    Answered({"get_day"}) =>
        LET date == resp.req.date
            OnDate(d) == d.date = date
            pages == DayPages(store, date, resp.req.journal_id)
        IN /\ DOMAIN resp.body = {"date", "page", "events", "stickers", "drawings"}
           /\ resp.body.date = date
           /\ Exactly(resp.body.events, store["calendarevent"], OnDate)
           /\ Exactly(resp.body.stickers, store["sticker"], OnDate)
           /\ Exactly(resp.body.drawings, store["drawing"], OnDate)
           /\ pages = {} => resp.body.page = null
           /\ pages # {} =>
                 resp.body.page \in {External(store["journalpage"][i]) : i \in pages}

\* no page, an event and a sticker of the date, no drawing
C4_Witness ==
    /\ Answered({"get_day"})
    /\ resp.body.page = null
    /\ Len(resp.body.events) = 1
    /\ Len(resp.body.stickers) = 1
    /\ resp.body.drawings = <<>>

----------------------------------------------------------------------------
\* C9: list_journals with limit N (absent: 50) rejects N outside 1..200
\* before any store call, and otherwise (the store answering) returns the
\* first min(N, K) of the K stored journals, in storage order.
C9_JournalsLimit ==
    (resp.op = "list_journals" /\ resp.status # 500) =>
        LET N == IF resp.req.limit = <<>> THEN 50 ELSE resp.req.limit[1]
            journals == store["journal"]
            K == Len(journals)
        IN IF N < 1 \/ N > 200 THEN resp.status = 422
           ELSE /\ resp.status = 200
                /\ Len(resp.body) = (IF N < K THEN N ELSE K)
                /\ \A i \in 1..Len(resp.body) : resp.body[i] = External(journals[i])

\* limit 1 on two stored journals returns the first one only
C9_Witness ==
    /\ Answered({"list_journals"})
    /\ resp.req.limit = <<1>>
    /\ Len(store["journal"]) = 2
    /\ Len(resp.body) = 1
    /\ resp.body[1].id = Str(store["journal"][1]["_id"])

----------------------------------------------------------------------------
\* the fields the client sent come back as sent
AgreesWith(item, in) == \A f \in DOMAIN in : f \in DOMAIN item /\ item[f] = in[f]

\* the fields the client left out come back with their declared defaults
Defaulted(item, schema, in) ==
    \A f \in (DOMAIN schema) \ (DOMAIN in) :
        f \in DOMAIN item /\ item[f] = schema[f].default

\* the identifiers returned by the creates on a collection, in order
RECURSIVE IdsOf(_, _)
IdsOf(log, collection_name) ==
    IF log = <<>> THEN <<>>
    ELSE IF log[1].collection = collection_name
         THEN <<log[1].id>> \o IdsOf(Tail(log), collection_name)
         ELSE IdsOf(Tail(log), collection_name)

\* the items a read returned (get_page returns one document, not a list)
Items(r) == IF r.op = "get_page" THEN {r.body} ELSE {r.body[k] : k \in 1..Len(r.body)}

\* C6: every successful create returns an identifier different from the one
\* of every earlier create, in any collection, and every record read back
\* shows the identifier its create returned.
C6_UniqueStableIds ==
    /\ \A i, j \in 1..Len(created) : i # j => created[i].id # created[j].id
    /\ Answered(CreateOps) =>
          /\ created # <<>>
          /\ created[Len(created)].id = resp.body.id
          /\ created[Len(created)].collection = CollectionOf(resp.op)
    /\ Answered(ListOps \cup {"list_journals", "get_page"}) =>
          \A item \in Items(resp) :
              \E i \in 1..Len(created) :
                  /\ created[i].collection = CollectionOf(resp.op)
                  /\ created[i].id = item.id
                  /\ AgreesWith(item, created[i].input)
    /\ (Answered(ListOps) /\ ~Supplied(resp.req.date) /\ ~Supplied(resp.req.month)) =>
          [k \in 1..Len(resp.body) |-> resp.body[k].id] = IdsOf(created, CollectionOf(resp.op))

\* creates on two collections, then a listing that shows a record
C6_Witness ==
    /\ Len(created) = 2
    /\ created[1].collection # created[2].collection
    /\ Answered({"list_stickers"})
    /\ Len(resp.body) = 1
    /\ resp.body[1].id = created[2].id

----------------------------------------------------------------------------
\* the read of the record's kind is one whose filter matches the record
ReadsBack(r, e) ==
    /\ r.status = 200
    /\ CASE e.collection = "journal" -> r.op = "list_journals"
         [] e.collection = "journalpage" ->
               /\ r.op = "get_page"
               /\ r.req.journal_id = e.input.journal_id
               /\ r.req.date = e.input.date
         [] OTHER ->
               /\ r.op \in ListOps
               /\ CollectionOf(r.op) = e.collection
               /\ \/ r.req.date = e.input.date
                  \/ ~Supplied(r.req.date) /\ ~Supplied(r.req.month)

Returned(r, e) ==
    \E item \in Items(r) :
        /\ item.id = e.id
        /\ AgreesWith(item, e.input)
        /\ Defaulted(item, SchemaOf(e.collection), e.input)

\* the creates on the collection of created[i] that came before it
Earlier(i) == {j \in 1..(i - 1) : created[j].collection = created[i].collection}

\* C7 as stated: after a successful create, and any further creates, the
\* read of that kind with a matching filter returns the record: the id the
\* create returned, the fields sent, the defaults for the rest.
C7_RoundTrip ==
    \A i \in 1..Len(created) : ReadsBack(resp, created[i]) => Returned(resp, created[i])

\* C7 amended: the same, for a journal when fewer journals than the limit
\* were stored before it, and for a page when no page of the same journal_id
\* and date was stored before it.
C7_RoundTripFirst ==
    \A i \in 1..Len(created) :
        LET e == created[i]
            within ==
                CASE e.collection = "journal" ->
                        Cardinality(Earlier(i)) <
                            (IF resp.req.limit = <<>> THEN 50 ELSE resp.req.limit[1])
                  [] e.collection = "journalpage" ->
                        \A j \in Earlier(i) :
                            \/ created[j].input.journal_id # e.input.journal_id
                            \/ created[j].input.date # e.input.date
                  [] OTHER -> TRUE
        IN (ReadsBack(resp, e) /\ within) => Returned(resp, e)

\* a sticker created with defaults is read back by its date after another
\* create came in between
C7_Witness ==
    /\ Len(created) = 2
    /\ created[1].collection = "sticker"
    /\ ReadsBack(resp, created[1])
    /\ Supplied(resp.req.date)
    /\ Returned(resp, created[1])

----------------------------------------------------------------------------
\* C8: create_page with otherwise valid fields is accepted exactly when the
\* font_size sent is in 8..64, and a request that validation rejects leaves
\* every collection as it was.
C8_FontSizeBounds ==
    /\ [](  (resp.op = "create_page" /\ resp.status # 500 /\ "font_size" \in DOMAIN resp.req) =>
              /\ resp.status \in {200, 422}
              /\ resp.status = 200 <=> resp.req.font_size \in 8..64)
    /\ [][resp'.status = 422 => (store' = store /\ nextOid' = nextOid)]_vars

\* font_size 65 rejected with a page already stored
C8_Witness ==
    /\ resp.op = "create_page" /\ resp.status = 422
    /\ resp.req.font_size = 65
    /\ store["journalpage"] # <<>>

----------------------------------------------------------------------------
ReadPcs == {"page", "events", "stickers", "drawings"}

\* C5: when any one of the four reads of get_day fails, whichever it is and
\* however many reads succeeded before it, the call ends in that error and
\* returns no aggregate.
C5_FailureAborts ==
    (day.pc # "idle" /\ day.failed # None) =>
        /\ day.pc = "error"
        /\ resp.op = "get_day"
        /\ resp.status = 500
        /\ "body" \notin DOMAIN resp

\* the last read fails after the events read returned an event
C5_Witness ==
    /\ day.pc = "error"
    /\ day.failed = "drawings"
    /\ Len(day.resp.events) = 1
    /\ resp.status = 500

----------------------------------------------------------------------------
\* the store as it was when n documents had been inserted
StoreAt(n) ==
    LET Before(d) == d["_id"] < n
    IN [c \in Collections |-> SelectSeq(store[c], Before)]

\* what one read of get_day is to return from the store state st
Component(st, part, date, journal_id) ==
    LET OnDate(d) == d.date = date
        pages == DayPages(st, date, journal_id)
        first == CHOOSE i \in pages : \A j \in pages : i <= j
        Shown(docs) == [k \in 1..Len(docs) |-> External(docs[k])]
    IN CASE part = "page" ->
                IF pages = {} THEN null ELSE External(st["journalpage"][first])
         [] part = "events" -> Shown(SelectSeq(st["calendarevent"], OnDate))
         [] part = "stickers" -> Shown(SelectSeq(st["sticker"], OnDate))
         [] part = "drawings" -> Shown(SelectSeq(st["drawing"], OnDate))

\* the aggregate of one store state
DayView(st, date, journal_id) ==
    [date |-> date,
     page |-> Component(st, "page", date, journal_id),
     events |-> Component(st, "events", date, journal_id),
     stickers |-> Component(st, "stickers", date, journal_id),
     drawings |-> Component(st, "drawings", date, journal_id)]

\* C10: get_day reads page, events, stickers and drawings in separate
\* steps; each component is the matching content of its collection at the
\* moment of its read (the aggregate as a whole need not be the view of any
\* one store state: C10_Witness).
C10_ComponentsAsRead ==
    [][(day.pc \in ReadPcs /\ day'.pc = DayAfter(day.pc)) =>
          /\ day'.resp[day.pc] = Component(store, day.pc, day.date, day.journal_id)
          /\ \A k \in DOMAIN day.resp : day'.resp[k] = day.resp[k]
          /\ store' = store]_vars

\* a returned aggregate that is the view of no state the store passed through
C10_Witness ==
    /\ day.pc = "done"
    /\ resp = Ok("get_day", DayReq(day), day.resp)
    /\ \A n \in 0..nextOid : day.resp # DayView(StoreAt(n), day.date, day.journal_id)

====
